---- MODULE Spec2Model ----
(***************************************************************************)
(* timemoji: clockmoji.rs maps a local instant to one of 24 clock-face     *)
(* glyphs, moonmoji.rs maps a UTC instant to one of 10 moon-phase glyphs.  *)
(*                                                                         *)
(* Both programs are pure functions; the state of the model is the frame   *)
(* of the call in progress (its arguments, its locals, its result).  One   *)
(* call runs at a time; Return drops the frame.                            *)
(*                                                                         *)
(* f64 values are exact rationals <<num, den>> with den > 0, and NaN is    *)
(* <<0, 0>>.  Rounding of f64 arithmetic is not modelled: step_phase is    *)
(* evaluated in exact arithmetic.  Glyphs are named by their code points.  *)
(***************************************************************************)
EXTENDS Integers, Sequences, FiniteSets, TLC

VARIABLES
    op,            \* the call in progress: "idle" or the function called
    pc,            \* position inside the call; "panic" after an index out of bounds
    time_arg,      \* clock get_emoji: the `time` argument, None or Some(t)
    time,          \* clock get_emoji: `time` after unwrap_or_else, seconds since local midnight
    seconds,       \* clock get_emoji: `seconds`
    index,         \* clock get_emoji: `index`
    glyph,         \* the &'static str returned (clock or moon get_emoji), "" when none
    date_arg,      \* moon get_emoji: the `date` argument, None or Some(d)
    phase,         \* step_phase: the `phase` argument
    random_value,  \* step_phase: the `random_value` argument, None or Some(p)
    draw,          \* step_phase: the value random::<f64>() returned
    sel,           \* step_phase: the loop index i at `return` inside the loop, NoSel when the loop ended
    ret,           \* step_phase: the usize returned
    now,           \* demo: the value Utc::now() returned
    curr,          \* demo: `curr`
    iter,          \* demo: number of loop iterations started
    lines          \* demo: the instants printed, one per line, in order

vars == <<op, pc, time_arg, time, seconds, index, glyph, date_arg, phase,
          random_value, draw, sel, ret, now, curr, iter, lines>>

clock_vars == <<time_arg, time, seconds, index>>
step_vars == <<phase, random_value, draw, sel, ret>>
demo_vars == <<now, curr, iter, lines>>

---------------------------------------------------------------------------
(* Bounds of the model.                                                    *)

\* phases are enumerated on the grid n / (4 * PhaseQuarter)
PhaseQuarter == 10
\* phases enumerated below 0 and above 1, in grid steps
PhaseExtra == 2
\* random draws and variant probabilities are enumerated on the grid n / RandDen
RandDen == 10
\* UTC instants are whole days 0..MaxDay after the test instant 2013-03-05T00:00:00Z
MaxDay == 2

---------------------------------------------------------------------------
(* Option<T>                                                               *)

None == <<>>
Some(x) == <<x>>
UnwrapOr(o, d) == IF o = None THEN d ELSE o[1]

---------------------------------------------------------------------------
(* Arrays: Rust indexes from 0 and panics on an index out of bounds        *)

InBounds(arr, i) == i \in 0 .. (Len(arr) - 1)
At(arr, i) == arr[i + 1]

---------------------------------------------------------------------------
(* f64 as exact rationals                                                  *)

NaN == <<0, 0>>
IsNaN(a) == a[2] = 0
Abs(n) == IF n < 0 THEN -n ELSE n

RECURSIVE GCD(_, _)
GCD(a, b) == IF b = 0 THEN a ELSE GCD(b, a % b)

Norm(n, d) == LET g == GCD(Abs(n), d) IN <<n \div g, d \div g>>

\* a + b
Add(a, b) ==
    IF IsNaN(a) \/ IsNaN(b) THEN NaN
    ELSE LET l == (a[2] \div GCD(a[2], b[2])) * b[2]
         IN Norm(a[1] * (l \div a[2]) + b[1] * (l \div b[2]), l)

\* a - b
Sub(a, b) ==
    IF IsNaN(a) \/ IsNaN(b) THEN NaN
    ELSE LET l == (a[2] \div GCD(a[2], b[2])) * b[2]
         IN Norm(a[1] * (l \div a[2]) - b[1] * (l \div b[2]), l)

\* a * b
Mul(a, b) ==
    IF IsNaN(a) \/ IsNaN(b) THEN NaN
    ELSE LET g1 == GCD(Abs(a[1]), b[2])
             g2 == GCD(Abs(b[1]), a[2])
         IN Norm((a[1] \div g1) * (b[1] \div g2), (a[2] \div g2) * (b[2] \div g1))

\* a <= b, false when either is NaN
Le(a, b) == ~IsNaN(a) /\ ~IsNaN(b) /\ a[1] * b[2] <= b[1] * a[2]

\* a < b, false when either is NaN
Lt(a, b) == ~IsNaN(a) /\ ~IsNaN(b) /\ a[1] * b[2] < b[1] * a[2]

Zero == <<0, 1>>

---------------------------------------------------------------------------
(* moonmoji.rs: the phase table                                            *)

MoonMoji(e, n, w) == [emoji |-> e, name |-> n, weight |-> w]

\* 6.3825 = 2553/400
PHASES == <<
    MoonMoji("U+1F311", "New Moon", <<1, 1>>),
    MoonMoji("U+1F312", "Waxing Crescent", <<2553, 400>>),
    MoonMoji("U+1F313", "First Quarter", <<1, 1>>),
    MoonMoji("U+1F314", "Waxing Gibbous", <<2553, 400>>),
    MoonMoji("U+1F315", "Full Moon", <<1, 1>>),
    MoonMoji("U+1F316", "Waning Gibbous", <<2553, 400>>),
    MoonMoji("U+1F317", "Last Quarter", <<1, 1>>),
    MoonMoji("U+1F318", "Waning Crescent", <<2553, 400>>),
    MoonMoji("U+1F31A", "New Moon *", <<0, 1>>),
    MoonMoji("U+1F31D", "Full Moon *", <<0, 1>>) >>

\* 1.0 + 6.3825 + 1.0 + 6.3825 + 1.0 + 6.3825 + 1.0 + 6.3825 + 0.0 + 0.0
PHASE_WEIGHT ==
    Add(Add(Add(Add(Add(Add(Add(Add(Add(<<1, 1>>, <<2553, 400>>), <<1, 1>>),
        <<2553, 400>>), <<1, 1>>), <<2553, 400>>), <<1, 1>>), <<2553, 400>>),
        <<0, 1>>), <<0, 1>>)

\* the value of `sel` when the loop of step_phase ended without a return
NoSel == Len(PHASES)

---------------------------------------------------------------------------
(* moonmoji.rs: step_phase                                                 *)

\* random_value.unwrap_or(0.1)
DefaultRandomValue == <<1, 10>>

\* let extra_emoji = random::<f64>() <= random_value.unwrap_or(0.1);
ExtraEmoji(r, rv) == Le(r, UnwrapOr(rv, DefaultRandomValue))

\* mutant: the test written phase <= 0.0
BelowOrAtZero(acc) == Le(acc, Zero)

\* if phase < 0.0
BelowZero(acc) == Lt(acc, Zero)

\* mutant: the two variant indices exchanged
LoopReturnSwapped(extra_emoji, i) ==
    IF extra_emoji /\ i = 0 THEN 9
    ELSE IF extra_emoji /\ i = 4 THEN 8
    ELSE i

\* the three returns inside the loop, for loop index i
LoopReturn(extra_emoji, i) ==
    IF extra_emoji /\ i = 0 THEN 8
    ELSE IF extra_emoji /\ i = 4 THEN 9
    ELSE i

\* mutant: the test made before the entry's weight is subtracted
RECURSIVE StepLoopTestFirst(_, _, _)
StepLoopTestFirst(i, acc, extra_emoji) ==
    IF i >= Len(PHASES) THEN [sel |-> NoSel, ret |-> 0]
    ELSE IF BelowZero(acc) THEN [sel |-> i, ret |-> LoopReturn(extra_emoji, i)]
    ELSE StepLoopTestFirst(i + 1, Sub(acc, PHASES[i + 1].weight), extra_emoji)

\* the loop from entry i on, acc being `phase` before the entry's weight is
\* subtracted; the record holds the loop index at the return and the value returned
RECURSIVE StepLoop(_, _, _)
StepLoop(i, acc, extra_emoji) ==
    IF i >= Len(PHASES) THEN [sel |-> NoSel, ret |-> 0]
    ELSE LET a == Sub(acc, PHASES[i + 1].weight)
         IN IF BelowZero(a) THEN [sel |-> i, ret |-> LoopReturn(extra_emoji, i)]
            ELSE StepLoop(i + 1, a, extra_emoji)

\* step_phase(phase, random_value) when random::<f64>() returns r
step_phase(ph, rv, r) == StepLoop(0, Mul(ph, PHASE_WEIGHT), ExtraEmoji(r, rv))

---------------------------------------------------------------------------
(* moonmoji.rs: get_phase                                                  *)

\* the instant of the test, Utc.ymd(2013, 3, 5).and_hms(0, 0, 0), as a day count
TestDate == 0
Instants == TestDate .. MaxDay

\* the test pins get_phase(test_date) to 0.7548368838538762 within f64 EPSILON;
\* the value lies strictly between these two rationals
GoldenLo == <<75483, 100000>>
GoldenHi == <<75484, 100000>>

PhaseDen == 4 * PhaseQuarter
\* the f64 values enumerated: the grid from below 0 to above 1, the test value's
\* bracket, 0.9999 and NaN
PhaseInputs ==
    {<<n, PhaseDen>> : n \in (0 - PhaseExtra) .. (PhaseDen + PhaseExtra)}
        \cup {GoldenLo, GoldenHi, <<9999, 10000>>, NaN}

\* get_phase(&Some(d)): the set of values the call may return.  The series of
\* sun_coords, moon_coords and get_phase is not evaluated: for the test instant
\* the result is the value the test asserts, for any other instant every
\* enumerated f64 is allowed.
get_phase(d) == IF d = TestDate THEN {GoldenLo, GoldenHi} ELSE PhaseInputs

\* the values random::<f64>() may return: [0, 1)
Draws == {<<n, RandDen>> : n \in 0 .. (RandDen - 1)}
\* the values of the random_value argument
RandomValues == {None} \cup {Some(<<n, RandDen>>) : n \in 0 .. RandDen}

\* step_phase over the enumerated arguments and draws
StepPhaseValues ==
    [ph \in PhaseInputs, rv \in RandomValues, r \in Draws |-> step_phase(ph, rv, r)]

---------------------------------------------------------------------------
(* clockmoji.rs                                                            *)

CLOCKS == <<
    "U+1F55B", "U+1F567", "U+1F550", "U+1F55C", "U+1F551", "U+1F55D",
    "U+1F552", "U+1F55E", "U+1F553", "U+1F55F", "U+1F554", "U+1F560",
    "U+1F555", "U+1F561", "U+1F556", "U+1F562", "U+1F557", "U+1F563",
    "U+1F558", "U+1F564", "U+1F559", "U+1F565", "U+1F55A", "U+1F566" >>

DURATION == 60 * 30

\* seconds in a local day: num_seconds_from_midnight() ranges over 0 .. 86399
DaySeconds == 24 * 60 * 60
LocalTimes == 0 .. (DaySeconds - 1)

\* Duration::minutes(15), in seconds
Shift == 15 * 60

\* mutant: the 15 minutes not added
ShiftedSecondsNoShift(t) == t % DaySeconds

\* time.add(Duration::minutes(15)).time().num_seconds_from_midnight(), for an
\* instant t seconds after local midnight; the UTC offset is taken not to change
\* between t and t + 15 min
ShiftedSeconds(t) == (t + Shift) % DaySeconds

\* let index = seconds / DURATION;
ClockIndex(s) == s \div DURATION

\* mutant: the index used as it is
ClockPosNoWrap(i) == i

\* CLOCKS[index % CLOCKS.len()], the 0-based position used
ClockPos(i) == i % Len(CLOCKS)

---------------------------------------------------------------------------
(* The state machine                                                       *)

Init ==
    /\ op = "idle"
    /\ pc = "done"
    /\ time_arg = None
    /\ time = 0
    /\ seconds = 0
    /\ index = 0
    /\ glyph = ""
    /\ date_arg = None
    /\ phase = Zero
    /\ random_value = None
    /\ draw = Zero
    /\ sel = NoSel
    /\ ret = 0
    /\ now = 0
    /\ curr = 0
    /\ iter = 0
    /\ lines = <<>>

\* clockmoji.rs get_emoji(&time): with None the local clock is read, and may
\* show any time of day
clock_get_emoji ==
    /\ op = "idle"
    /\ \E some \in BOOLEAN, t \in LocalTimes :
          /\ time_arg' = IF some THEN Some(t) ELSE None
          /\ time' = t
          /\ seconds' = ShiftedSeconds(t)
          /\ index' = ClockIndex(ShiftedSeconds(t))
          /\ LET i == ClockPos(ClockIndex(ShiftedSeconds(t)))
             IN IF InBounds(CLOCKS, i)
                THEN glyph' = At(CLOCKS, i) /\ pc' = "done"
                ELSE glyph' = "" /\ pc' = "panic"
    /\ op' = "clock_get_emoji"
    /\ UNCHANGED <<date_arg, step_vars, demo_vars>>

\* a direct call step_phase(phase, random_value), as the test makes
StepPhaseCall ==
    /\ op = "idle"
    /\ \E ph \in PhaseInputs, rv \in RandomValues, r \in Draws :
          LET res == StepPhaseValues[ph, rv, r]
          IN /\ phase' = ph
             /\ random_value' = rv
             /\ draw' = r
             /\ sel' = res.sel
             /\ ret' = res.ret
    /\ op' = "step_phase"
    /\ pc' = "done"
    /\ UNCHANGED <<clock_vars, glyph, date_arg, demo_vars>>

\* moonmoji.rs get_emoji(&date): PHASES[step_phase(get_phase(date), None)].emoji;
\* with None, get_phase reads Utc::now()
moon_get_emoji ==
    /\ op = "idle"
    /\ \E some \in BOOLEAN, d \in Instants :
          /\ date_arg' = IF some THEN Some(d) ELSE None
          /\ now' = IF some THEN now ELSE d
          /\ \E ph \in get_phase(d), r \in Draws :
                LET res == StepPhaseValues[ph, None, r]
                IN /\ phase' = ph
                   /\ random_value' = None
                   /\ draw' = r
                   /\ sel' = res.sel
                   /\ ret' = res.ret
                   /\ IF InBounds(PHASES, res.ret)
                      THEN glyph' = At(PHASES, res.ret).emoji /\ pc' = "done"
                      ELSE glyph' = "" /\ pc' = "panic"
    /\ op' = "moon_get_emoji"
    /\ UNCHANGED <<clock_vars, curr, iter, lines>>

\* Duration::days(1), in days
one_day == 1

\* for _ in 1..31
RangeStart == 1
RangeEnd == 31

\* mutant: one_day not subtracted before the loop
DemoStartNoSub ==
    /\ op = "idle"
    /\ \E n \in Instants :
          /\ now' = n
          /\ curr' = n
    /\ iter' = 0
    /\ lines' = <<>>
    /\ op' = "demo"
    /\ pc' = "loop"
    /\ UNCHANGED <<clock_vars, glyph, date_arg, step_vars>>

\* demo, up to the loop: curr = Utc::now().sub(one_day)
DemoStart ==
    /\ op = "idle"
    /\ \E n \in Instants :
          /\ now' = n
          /\ curr' = n - one_day
    /\ iter' = 0
    /\ lines' = <<>>
    /\ op' = "demo"
    /\ pc' = "loop"
    /\ UNCHANGED <<clock_vars, glyph, date_arg, step_vars>>

\* one more value of the range: curr = curr.add(one_day); phase = get_phase(&Some(curr))
DemoAdvance ==
    /\ op = "demo"
    /\ pc = "loop"
    /\ RangeStart + iter < RangeEnd
    /\ iter' = iter + 1
    /\ curr' = curr + one_day
    /\ \E ph \in get_phase(curr + one_day) : phase' = ph
    /\ random_value' = None
    /\ draw' = Zero
    /\ sel' = NoSel
    /\ ret' = 0
    /\ pc' = "print"
    /\ UNCHANGED <<op, clock_vars, glyph, date_arg, now, lines>>

\* println!("{} - {:?}", curr.date(), PHASES[step_phase(phase, None)])
DemoPrint ==
    /\ op = "demo"
    /\ pc = "print"
    /\ \E r \in Draws :
          LET res == StepPhaseValues[phase, None, r]
          IN /\ draw' = r
             /\ sel' = res.sel
             /\ ret' = res.ret
             /\ IF InBounds(PHASES, res.ret)
                THEN lines' = Append(lines, curr) /\ pc' = "loop"
                ELSE lines' = lines /\ pc' = "panic"
    /\ UNCHANGED <<op, clock_vars, glyph, date_arg, phase, random_value, now, curr, iter>>

\* the range is exhausted: demo returns
DemoExit ==
    /\ op = "demo"
    /\ pc = "loop"
    /\ ~(RangeStart + iter < RangeEnd)
    /\ pc' = "done"
    /\ UNCHANGED <<op, clock_vars, glyph, date_arg, step_vars, demo_vars>>

\* the call has returned; its frame is dropped
Return ==
    /\ op # "idle"
    /\ pc = "done"
    /\ op' = "idle"
    /\ time_arg' = None
    /\ time' = 0
    /\ seconds' = 0
    /\ index' = 0
    /\ glyph' = ""
    /\ date_arg' = None
    /\ phase' = Zero
    /\ random_value' = None
    /\ draw' = Zero
    /\ sel' = NoSel
    /\ ret' = 0
    /\ now' = 0
    /\ curr' = 0
    /\ iter' = 0
    /\ lines' = <<>>
    /\ UNCHANGED pc

Next ==
    \/ clock_get_emoji
    \/ StepPhaseCall
    \/ moon_get_emoji
    \/ DemoStart
    \/ DemoAdvance
    \/ DemoPrint
    \/ DemoExit
    \/ Return

Spec == Init /\ [][Next]_vars

\* moonmoji.rs run as demo only; demo runs to its end, nothing blocks or suspends it
DemoNext ==
    \/ DemoStart
    \/ DemoAdvance
    \/ DemoPrint
    \/ DemoExit
    \/ Return

FairSpec ==
    /\ Init
    /\ [][DemoNext]_vars
    /\ WF_vars(DemoAdvance)
    /\ WF_vars(DemoPrint)
    /\ WF_vars(DemoExit)

---------------------------------------------------------------------------
(* Properties                                                              *)

\* step_phase has returned and its frame (phase, random_value, draw, sel, ret) is set
StepReady ==
    \/ op \in {"step_phase", "moon_get_emoji"}
    \/ op = "demo" /\ pc \in {"loop", "done"} /\ iter > 0

\* 0 <= ph <= 1
InUnit(ph) == ~IsNaN(ph) /\ 0 <= ph[1] /\ ph[1] <= ph[2]

\* the cumulative bin boundaries 1, 7.3825, 8.3825, 14.765, 15.765, 22.1475,
\* 23.1475, 29.53 (and twice more 29.53 for the two entries of weight 0), times 400
Boundary400 == <<400, 2953, 3353, 5906, 6306, 8859, 9259, 11812, 11812, 11812>>

\* the first entry i with ph * 29.53 below the i-th boundary (29.53 * 400 = 11812),
\* NoSel when there is none
Bin(ph) ==
    LET below == {i \in 0 .. 9 : ~IsNaN(ph) /\ ph[1] * 11812 < Boundary400[i + 1] * ph[2]}
    IN IF below = {} THEN NoSel
       ELSE CHOOSE i \in below : \A j \in below : i <= j

\* the random draw is at most the variant probability
VariantFires == Le(draw, IF random_value = None THEN <<1, 10>> ELSE random_value[1])

\* C1 as stated: for the test instant 2013-03-05T00:00:00Z the weighted selection
\* is entry 5 and moon get_emoji returns the Waning Gibbous glyph U+1F316.
C1_Original ==
    (op = "moon_get_emoji" /\ date_arg = Some(TestDate))
        => (sel = 5 /\ glyph = "U+1F316")

\* C1 amended: for the test instant (phase 0.7548368838538762, so
\* phase * 29.53 = 22.29 > 22.1475) the weighted selection is entry 6, and moon
\* get_emoji returns the Last Quarter glyph U+1F317 whatever the random draw; a
\* direct step_phase call on that phase returns 6 for every variant probability.
C1_GoldenIsLastQuarter ==
    /\ (op = "moon_get_emoji" /\ date_arg = Some(TestDate))
          => (sel = 6 /\ ret = 6 /\ glyph = "U+1F317")
    /\ (op = "step_phase" /\ phase \in {GoldenLo, GoldenHi})
          => (sel = 6 /\ ret = 6)

C1_Witness ==
    /\ op = "moon_get_emoji"
    /\ date_arg = Some(TestDate)
    /\ phase = GoldenLo
    /\ glyph = "U+1F317"

\* C2: clock get_emoji returns CLOCKS[floor(s / 1800) mod 24], s being the seconds
\* since local midnight of t + 15 min; the glyph's half-hour mark on the 12-hour
\* face is the one nearest to t (t lies in [mark - 15 min, mark + 15 min) around
\* the face); 00:00:00 and 00:14:59 give index 0, 00:15:00 gives index 1,
\* 12:44:59 gives index 25 and glyph 1.
C2_ClockNearestHalfHour ==
    op = "clock_get_emoji" =>
        LET s == (time + 900) % 86400
            k == (s \div 1800) % 24
            mark == k * 1800
        IN /\ seconds = s
           /\ index = s \div 1800
           /\ glyph = CLOCKS[k + 1]
           /\ ((time % 43200) - mark + 900) % 43200 < 1800
           /\ (time = 0 \/ time = 899) => (index = 0 /\ glyph = "U+1F55B")
           /\ time = 900 => (index = 1 /\ glyph = "U+1F567")
           /\ time = 45899 => (index = 25 /\ glyph = "U+1F567")
           /\ time >= 85500 => s = time - 85500

C2_Witness ==
    /\ op = "clock_get_emoji"
    /\ time = 45899
    /\ index = 25
    /\ glyph = "U+1F567"

\* C3 as stated: with variant probability 0.0, for every phase in [0, 1] and every
\* draw in [0, 1), step_phase returns an index in 0..7, the same for every draw.
C3_Claim ==
    (op = "step_phase" /\ random_value = Some(<<0, RandDen>>) /\ InUnit(phase))
        => /\ ret \in 0 .. 7
           /\ \A r1 \in Draws : step_phase(phase, random_value, r1).ret = ret

\* C4 as stated: with variant probability 0.0, step_phase is non-decreasing in
\* phase over [0, 1]; step_phase(0.0) = 0, step_phase(0.5) = 4, step_phase(0.9999) = 7.
C4_Claim ==
    (op = "step_phase" /\ random_value = Some(<<0, RandDen>>) /\ InUnit(phase))
        => /\ \A ph1 \in PhaseInputs, r1 \in Draws :
                 (InUnit(ph1) /\ Le(ph1, phase))
                     => step_phase(ph1, random_value, r1).ret <= ret
           /\ phase[1] = 0 => ret = 0
           /\ 2 * phase[1] = phase[2] => ret = 4
           /\ phase = <<9999, 10000>> => ret = 7

\* C5 as stated: step_phase(0.0, None) returns 0 whatever the random draw.
C5_Claim ==
    (op = "step_phase" /\ random_value = None /\ ~IsNaN(phase) /\ phase[1] = 0)
        => ret = 0

\* C6: no call indexes out of bounds: the clock's index into CLOCKS is in 0..23
\* and the glyph is one of CLOCKS; step_phase returns an index in 0..9 for every
\* phase (NaN and values outside [0, 1] included), probability and draw, and the
\* moon glyph is one of PHASES.
C6_IndexInBounds ==
    /\ pc # "panic"
    /\ op = "clock_get_emoji"
          => /\ index % 24 \in 0 .. 23
             /\ \E k \in 1 .. 24 : glyph = CLOCKS[k]
    /\ StepReady => ret \in 0 .. 9
    /\ op = "moon_get_emoji" => \E k \in 1 .. 10 : glyph = PHASES[k].emoji

C6_Witness ==
    /\ op = "clock_get_emoji"
    /\ pc = "done"
    /\ index = 47
    /\ glyph = "U+1F566"

\* C7: demo ends, and when it has ended it has printed exactly 30 lines: line k is
\* for the instant k - 1 days after the instant demo read from the clock.
C7_DemoPrintsThirtyDays ==
    /\ [](op = "demo" /\ pc = "done" => lines = [k \in 1 .. 30 |-> now + (k - 1)])
    /\ (op = "demo") ~> (op = "demo" /\ pc = "done" /\ Len(lines) = 30)

C7_Witness ==
    /\ op = "demo"
    /\ pc = "done"
    /\ Len(lines) = 30
    /\ lines[1] = now
    /\ lines[30] = now + 29

C10_Original ==
    (StepReady /\ InUnit(phase)) => sel \in 0 .. 7

\* C10 amended: in exact arithmetic, for every phase in [0, 1) the loop selects
\* one of the entries 0..7; at phase = 1 the accumulator reaches exactly 0 after
\* entry 7, no entry makes it negative, the loop ends and the fallback returns 0.
C10_FallbackAtOne ==
    StepReady =>
        /\ (InUnit(phase) /\ phase[1] < phase[2]) => (sel \in 0 .. 7 /\ sel = Bin(phase))
        /\ (InUnit(phase) /\ phase[1] = phase[2]) => (sel = NoSel /\ ret = 0)

C10_Witness ==
    /\ op = "step_phase"
    /\ phase = <<PhaseDen, PhaseDen>>
    /\ sel = NoSel
    /\ ret = 0

====
